---- MODULE Spec2Model ----
(***************************************************************************)
(* Model of constructs/trees.py: AbstractNode (parent, content, children)  *)
(* and AbstractTree (root).  Python lists are objects: a node holds a      *)
(* reference to a list, and the list's contents live in a heap.  The list  *)
(* object created once for the default value of the `children` parameter   *)
(* of AbstractNode.__init__ is heap cell DefaultList; every node built     *)
(* without a children argument refers to that one cell.                    *)
(***************************************************************************)
EXTENDS Integers, Sequences, FiniteSets, TLC

\* ---- bounds of the model -------------------------------------------------
\* nodes ever constructed
MaxNodes == 3
\* longest list literal a caller passes to __init__ or set_children
MaxLiteral == 2
\* calls made in one run of Spec and of SpecLinks
MaxOps == 4
\* calls made in one run of SpecChildren
MaxListOps == 5

\* ---- values ---------------------------------------------------------------
None == 0
DefaultList == 0
NodeIds == 1..MaxNodes
Contents == {None, 1}
RecursionLimit == MaxNodes + 1

VARIABLES nNodes, parent, content, children, heap, root, ops, last

vars == <<nNodes, parent, content, children, heap, root, ops, last>>

Nodes == 1..nNodes

\* sequences over S of length at most n
BoundedSeq(S, n) == UNION {[1..k -> S] : k \in 0..n}

\* the list literals a caller passes: fresh lists of nodes built so far
Literals == BoundedSeq(Nodes, MaxLiteral)

\* The record of the most recent call: which method, on which node, with
\* which node argument, and how it ended.  add_child also records the
\* receiver's list before the call; a remove_child(A, X) that comes right
\* after add_child(A, X) is marked `undo` and keeps that recorded list.
Call(op, self, arg, err, before, undo) ==
    [op |-> op, self |-> self, arg |-> arg, err |-> err,
     before |-> before, undo |-> undo]

\* ---- outcomes of a call: a value, or the exception that ended it ----------
Ok(v) == [err |-> "none", val |-> v]
Raise(e, z) == [err |-> e, val |-> z]

\* ---- AbstractNode: accessors ----------------------------------------------
get_parent(self) == parent[self]
has_parent(self) == parent[self] # None
get_content(self) == content[self]
is_empty(self) == content[self] = None
get_children(self) == heap[children[self]]
has_children(self) == Len(get_children(self)) > 0
is_leaf(self) == Len(get_children(self)) = 0
is_root(self) == parent[self] = None

\* ---- Python list primitives -----------------------------------------------
\* list.index: position of the first element equal to x, 0 when there is none
RECURSIVE FirstIndex(_, _, _)
FirstIndex(s, x, i) ==
    IF i > Len(s) THEN 0
    ELSE IF s[i] = x THEN i
    ELSE FirstIndex(s, x, i + 1)

Contains(s, x) == \E i \in 1..Len(s) : s[i] = x

\* position of the last element equal to x, 0 when there is none
RECURSIVE LastIndex(_, _, _)
LastIndex(s, x, i) ==
    IF i = 0 THEN 0
    ELSE IF s[i] = x THEN i
    ELSE LastIndex(s, x, i - 1)

\* variant of ListRemove: drops the last match instead of the first
ListRemoveLast(s, x) ==
    LET k == LastIndex(s, x, Len(s))
    IN  [i \in 1..(Len(s) - 1) |-> IF i < k THEN s[i] ELSE s[i + 1]]

\* list.remove on a list that contains x: drops the first match only
ListRemove(s, x) ==
    LET k == FirstIndex(s, x, 1)
    IN  [i \in 1..(Len(s) - 1) |-> IF i < k THEN s[i] ELSE s[i + 1]]


\* ---- helpers over results --------------------------------------------------
AnyRaised(rs) == \E i \in DOMAIN rs : rs[i].err # "none"

RECURSIVE SumSeq(_)
SumSeq(s) == IF s = <<>> THEN 0 ELSE Head(s) + SumSeq(Tail(s))

RECURSIVE MaxSeq(_)
MaxSeq(s) ==
    IF Len(s) = 1 THEN s[1]
    ELSE LET m == MaxSeq(Tail(s)) IN IF Head(s) > m THEN Head(s) ELSE m

RECURSIVE Flatten(_)
Flatten(ss) == IF ss = <<>> THEN <<>> ELSE Head(ss) \o Flatten(Tail(ss))

\* an element of the list get_descendants builds: a node, or a nested list
NodeItem(n) == [isList |-> FALSE, node |-> n, list |-> <<>>]
ListItem(l) == [isList |-> TRUE, node |-> None, list |-> l]

\* ---- AbstractNode: recursive queries ---------------------------------------
\* `frames` is the number of stack frames left; a call with none left raises
\* RecursionError, which propagates through every caller.

\* variant of get_depth: counts the root as depth 1
RECURSIVE get_depth_from_one(_, _)
get_depth_from_one(self, frames) ==
    IF frames = 0 THEN Raise("RecursionError", 0)
    ELSE IF is_root(self) THEN Ok(1)
    ELSE LET r == get_depth_from_one(parent[self], frames - 1)
         IN  IF r.err # "none" THEN r ELSE Ok(r.val + 1)

RECURSIVE get_depth(_, _)
get_depth(self, frames) ==
    IF frames = 0 THEN Raise("RecursionError", 0)
    ELSE IF is_root(self) THEN Ok(0)
    ELSE LET r == get_depth(parent[self], frames - 1)
         IN  IF r.err # "none" THEN r ELSE Ok(r.val + 1)

RECURSIVE get_height(_, _)
get_height(self, frames) ==
    IF frames = 0 THEN Raise("RecursionError", 0)
    ELSE IF is_leaf(self) THEN Ok(0)
    ELSE LET ch == get_children(self)
             rs == [i \in 1..Len(ch) |-> get_height(ch[i], frames - 1)]
         IN  IF AnyRaised(rs) THEN Raise("RecursionError", 0)
             ELSE Ok(MaxSeq([i \in 1..Len(ch) |-> rs[i].val]) + 1)

RECURSIVE get_size(_, _)
get_size(self, frames) ==
    IF frames = 0 THEN Raise("RecursionError", 0)
    ELSE LET ch == get_children(self)
             rs == [i \in 1..Len(ch) |-> get_size(ch[i], frames - 1)]
         IN  IF AnyRaised(rs) THEN Raise("RecursionError", 0)
             ELSE Ok(SumSeq([i \in 1..Len(ch) |-> rs[i].val]) + 1)

RECURSIVE get_ancestors(_, _)
get_ancestors(self, frames) ==
    IF frames = 0 THEN Raise("RecursionError", <<>>)
    ELSE IF is_root(self) THEN Ok(<<>>)
    ELSE LET r == get_ancestors(parent[self], frames - 1)
         IN  IF r.err # "none" THEN r ELSE Ok(<<parent[self]>> \o r.val)

\* self.children + [child.get_descendants() for child in self.children]:
\* the children, then one nested list per child
RECURSIVE get_descendants(_, _)
get_descendants(self, frames) ==
    IF frames = 0 THEN Raise("RecursionError", <<>>)
    ELSE IF is_leaf(self) THEN Ok(<<>>)
    ELSE LET ch == get_children(self)
             rs == [i \in 1..Len(ch) |-> get_descendants(ch[i], frames - 1)]
         IN  IF AnyRaised(rs) THEN Raise("RecursionError", <<>>)
             ELSE Ok([i \in 1..Len(ch) |-> NodeItem(ch[i])]
                     \o [i \in 1..Len(ch) |-> ListItem(rs[i].val)])

\* variant of get_siblings: the parent's children, self included
get_siblings_all(self) ==
    IF is_root(self) THEN <<>> ELSE get_children(parent[self])

\* [child for child in self.parent.get_children() if child != self]
get_siblings(self) ==
    IF is_root(self) THEN <<>>
    ELSE LET Other(child) == child # self
         IN  SelectSeq(get_children(parent[self]), Other)

\* variant of get_leaves: a leaf contributes nothing
RECURSIVE get_leaves_no_self(_, _)
get_leaves_no_self(self, frames) ==
    IF frames = 0 THEN Raise("RecursionError", <<>>)
    ELSE IF is_leaf(self) THEN Ok(<<>>)
    ELSE LET ch == get_children(self)
             rs == [i \in 1..Len(ch) |-> get_leaves_no_self(ch[i], frames - 1)]
         IN  IF AnyRaised(rs) THEN Raise("RecursionError", <<>>)
             ELSE Ok(Flatten([i \in 1..Len(ch) |-> rs[i].val]))

RECURSIVE get_leaves(_, _)
get_leaves(self, frames) ==
    IF frames = 0 THEN Raise("RecursionError", <<>>)
    ELSE IF is_leaf(self) THEN Ok(<<self>>)
    ELSE LET ch == get_children(self)
             rs == [i \in 1..Len(ch) |-> get_leaves(ch[i], frames - 1)]
         IN  IF AnyRaised(rs) THEN Raise("RecursionError", <<>>)
             ELSE Ok(Flatten([i \in 1..Len(ch) |-> rs[i].val]))

\* ---- AbstractTree ------------------------------------------------------------
\* the facade calls self.root.<method>(); with root None the attribute lookup
\* raises AttributeError
get_root == root
Tree_is_empty == root = None
Tree_get_leaves ==
    IF root = None THEN Raise("AttributeError", <<>>) ELSE get_leaves(root, RecursionLimit)
Tree_get_size ==
    IF root = None THEN Raise("AttributeError", 0) ELSE get_size(root, RecursionLimit)
Tree_get_height ==
    IF root = None THEN Raise("AttributeError", 0) ELSE get_height(root, RecursionLimit)
Tree_get_depth ==
    IF root = None THEN Raise("AttributeError", 0) ELSE get_depth(root, RecursionLimit)

Init ==
    /\ nNodes = 0
    /\ parent = [n \in NodeIds |-> None]
    /\ content = [n \in NodeIds |-> None]
    /\ children = [n \in NodeIds |-> DefaultList]
    /\ heap = [l \in {DefaultList} \cup NodeIds |-> <<>>]
    /\ root = None
    /\ ops = 0
    /\ last = Call("none", None, None, "none", <<>>, FALSE)

\* AbstractNode.__init__ without a children argument: self.children is the
\* default-argument list object
NewNodeDefault(p, c) ==
    /\ nNodes < MaxNodes
    /\ nNodes' = nNodes + 1
    /\ parent' = [parent EXCEPT ![nNodes + 1] = p]
    /\ content' = [content EXCEPT ![nNodes + 1] = c]
    /\ children' = [children EXCEPT ![nNodes + 1] = DefaultList]
    /\ ops' = ops + 1
    /\ last' = Call("__init__", nNodes + 1, None, "none", <<>>, FALSE)
    /\ UNCHANGED <<heap, root>>

\* AbstractNode.__init__ with a children argument: a list the caller built
NewNodeWith(p, c, s) ==
    /\ nNodes < MaxNodes
    /\ nNodes' = nNodes + 1
    /\ parent' = [parent EXCEPT ![nNodes + 1] = p]
    /\ content' = [content EXCEPT ![nNodes + 1] = c]
    /\ children' = [children EXCEPT ![nNodes + 1] = nNodes + 1]
    /\ heap' = [heap EXCEPT ![nNodes + 1] = s]
    /\ ops' = ops + 1
    /\ last' = Call("__init__", nNodes + 1, None, "none", <<>>, FALSE)
    /\ UNCHANGED root

set_parent(self, p) ==
    /\ parent' = [parent EXCEPT ![self] = p]
    /\ ops' = ops + 1
    /\ last' = Call("set_parent", self, p, "none", <<>>, FALSE)
    /\ UNCHANGED <<nNodes, content, children, heap, root>>

set_content(self, c) ==
    /\ content' = [content EXCEPT ![self] = c]
    /\ ops' = ops + 1
    /\ last' = Call("set_content", self, None, "none", <<>>, FALSE)
    /\ UNCHANGED <<nNodes, parent, children, heap, root>>

\* set_children with a list the caller built: the node now refers to it
set_children(self, s) ==
    /\ children' = [children EXCEPT ![self] = self]
    /\ heap' = [heap EXCEPT ![self] = s]
    /\ ops' = ops + 1
    /\ last' = Call("set_children", self, None, "none", <<>>, FALSE)
    /\ UNCHANGED <<nNodes, parent, content, root>>

\* self.children.append(child): mutates the list object self refers to
add_child(self, child) ==
    /\ heap' = [heap EXCEPT ![children[self]] = Append(@, child)]
    /\ ops' = ops + 1
    /\ last' = Call("add_child", self, child, "none", get_children(self), FALSE)
    /\ UNCHANGED <<nNodes, parent, content, children, root>>

\* the previous call was add_child(self, child)
Undoes(self, child) ==
    last.op = "add_child" /\ last.self = self /\ last.arg = child

\* variant of remove_child: an absent child is skipped without an error
remove_child_silent(self, child) ==
    /\ ops' = ops + 1
    /\ heap' = IF Contains(get_children(self), child)
               THEN [heap EXCEPT ![children[self]] = ListRemove(@, child)]
               ELSE heap
    /\ last' = Call("remove_child", self, child, "none",
                    IF Undoes(self, child) THEN last.before ELSE <<>>,
                    Undoes(self, child))
    /\ UNCHANGED <<nNodes, parent, content, children, root>>

\* self.children.remove(child): list.remove raises ValueError when no
\* element equals child, and otherwise deletes the first match
remove_child(self, child) ==
    /\ ops' = ops + 1
    /\ IF Contains(get_children(self), child)
       THEN /\ heap' = [heap EXCEPT ![children[self]] = ListRemove(@, child)]
            /\ last' = Call("remove_child", self, child, "none",
                            IF Undoes(self, child) THEN last.before ELSE <<>>,
                            Undoes(self, child))
       ELSE /\ heap' = heap
            /\ last' = Call("remove_child", self, child, "ValueError", <<>>, FALSE)
    /\ UNCHANGED <<nNodes, parent, content, children, root>>

\* AbstractTree.set_root
set_root(r) ==
    /\ root' = r
    /\ ops' = ops + 1
    /\ last' = Call("set_root", None, r, "none", <<>>, FALSE)
    /\ UNCHANGED <<nNodes, parent, content, children, heap>>

\* ---- specifications -----------------------------------------------------------
\* a run makes at most MaxOps calls (MaxListOps in SpecChildren)
Budget == ops < MaxOps
ListBudget == ops < MaxListOps

\* every method
Next ==
    \/ Budget /\ \E p \in Nodes \cup {None}, c \in Contents : NewNodeDefault(p, c)
    \/ Budget /\ \E p \in Nodes \cup {None}, s \in Literals : NewNodeWith(p, None, s)
    \/ Budget /\ \E self \in Nodes, p \in Nodes \cup {None} : set_parent(self, p)
    \/ Budget /\ \E self \in Nodes, c \in Contents : set_content(self, c)
    \/ Budget /\ \E self \in Nodes, s \in Literals : set_children(self, s)
    \/ Budget /\ \E self \in Nodes, child \in Nodes : add_child(self, child)
    \/ Budget /\ \E self \in Nodes, child \in Nodes : remove_child(self, child)
    \/ Budget /\ \E r \in Nodes \cup {None} : set_root(r)

Spec == Init /\ [][Next]_vars

\* parent links and shared lists: construction with a parent, set_parent and
\* add_child
NextLinks ==
    \/ Budget /\ \E p \in Nodes \cup {None} : NewNodeDefault(p, None)
    \/ Budget /\ \E p \in Nodes \cup {None} : NewNodeWith(p, None, <<>>)
    \/ Budget /\ \E self \in Nodes, p \in Nodes \cup {None} : set_parent(self, p)
    \/ Budget /\ \E self \in Nodes, child \in Nodes : add_child(self, child)

SpecLinks == Init /\ [][NextLinks]_vars

\* building child lists: construction and add_child
NextTrees ==
    \/ Budget /\ NewNodeDefault(None, None)
    \/ Budget /\ \E s \in Literals : NewNodeWith(None, None, s)
    \/ Budget /\ \E self \in Nodes, child \in Nodes : add_child(self, child)

SpecTrees == Init /\ [][NextTrees]_vars

\* child lists alone: construction, add_child, remove_child
NextChildren ==
    \/ ListBudget /\ NewNodeDefault(None, None)
    \/ ListBudget /\ \E s \in Literals : NewNodeWith(None, None, s)
    \/ ListBudget /\ \E self \in Nodes, child \in Nodes : add_child(self, child)
    \/ ListBudget /\ \E self \in Nodes, child \in Nodes : remove_child(self, child)

SpecChildren == Init /\ [][NextChildren]_vars

\* ---- vocabulary of the properties ----------------------------------------------
NodeState == <<nNodes, parent, content, children, heap, root>>

Count(s, x) == Cardinality({i \in 1..Len(s) : s[i] = x})

\* s with every occurrence of x dropped, order kept
RECURSIVE Others(_, _)
Others(s, x) ==
    IF s = <<>> THEN <<>>
    ELSE (IF Head(s) = x THEN <<>> ELSE <<Head(s)>>) \o Others(Tail(s), x)

\* the k-th node up the parent chain of n, None once the chain has ended
RECURSIVE ParentIter(_, _)
ParentIter(n, k) ==
    IF n = None \/ k = 0 THEN n ELSE ParentIter(parent[n], k - 1)

\* the parent chain of n ends: it reaches a node without a parent
AcyclicChain(n) == ParentIter(n, nNodes) = None

Kids(n) == {get_children(n)[i] : i \in 1..Len(get_children(n))}

RECURSIVE Closure(_, _)
Closure(S, k) ==
    IF k = 0 THEN S ELSE Closure(S \cup UNION {Kids(m) : m \in S}, k - 1)

\* the nodes reachable from n through one or more child links
Below(n) == Closure(Kids(n), nNodes)

\* no child cycle is reachable from n
AcyclicBelow(n) == \A m \in {n} \cup Below(n) : m \notin Below(m)

\* the proper descendants of n in pre-order, for n with AcyclicBelow(n)
RECURSIVE Preorder(_)
Preorder(n) ==
    LET ch == get_children(n)
    IN  Flatten([i \in 1..Len(ch) |-> <<ch[i]>> \o Preorder(ch[i])])

\* every entry of s at or after the first x is x (vacuous when x is not in s)
OnlyXFromFirstX(s, x) ==
    \A i \in 1..Len(s) : (FirstIndex(s, x, 1) # 0 /\ i >= FirstIndex(s, x, 1)) => s[i] = x

C2_DescendantsFlatPreorder ==
    \A n \in Nodes : AcyclicBelow(n) =>
        LET r == get_descendants(n, RecursionLimit)
        IN  /\ r.err = "none"
            /\ \A i \in 1..Len(r.val) : ~r.val[i].isList
            /\ r.val = [i \in 1..Len(Preorder(n)) |-> NodeItem(Preorder(n)[i])]

\* ---- C3 ---------------------------------------------------------------------------
\* C3: on a Tree with no root, is_empty() is true, get_size(), get_height()
\* and get_depth() return 0 and get_leaves() returns the empty sequence.
C3_EmptyTreeSentinels ==
    root = None =>
        /\ Tree_is_empty
        /\ Tree_get_size = Ok(0)
        /\ Tree_get_height = Ok(0)
        /\ Tree_get_depth = Ok(0)
        /\ Tree_get_leaves = Ok(<<>>)

\* ---- C4 ---------------------------------------------------------------------------
\* C4 (as stated): add_child(A, X) followed at once by remove_child(A, X)
\* leaves A.children exactly as it was before the add_child.
C4_AddRemoveRestores ==
    (last.op = "remove_child" /\ last.undo) =>
        (last.err = "none" /\ get_children(last.self) = last.before)

\* C4 (amended): add_child(A, X) followed at once by remove_child(A, X)
\* returns normally, and leaves A.children exactly as it was before the
\* add_child if and only if every entry of that earlier list at or after its
\* first X is X (in particular whenever X was not in it).
C4_AddRemoveRestoresIff ==
    (last.op = "remove_child" /\ last.undo) =>
        /\ last.err = "none"
        /\ (get_children(last.self) = last.before)
             <=> OnlyXFromFirstX(last.before, last.arg)

\* add_child(A, X) then remove_child(A, X) on a list that already held another
\* node and X itself, and came back as it was
C4_Witness ==
    /\ last.op = "remove_child"
    /\ last.undo
    /\ Contains(last.before, last.arg)
    /\ \E i \in 1..Len(last.before) : last.before[i] # last.arg
    /\ get_children(last.self) = last.before

\* ---- C5 ---------------------------------------------------------------------------
\* C5: whenever node B appears in A.children, B.parent is A.
C5_ParentConsistency ==
    \A a \in Nodes, b \in Nodes : Contains(get_children(a), b) => parent[b] = a

\* ---- C6 ---------------------------------------------------------------------------
\* C6 (as stated): for N with a parent, get_siblings() is the other children
\* of the parent in order, N is not among them, and there is exactly one
\* fewer of them than the parent has children; for N without a parent it is
\* empty.
C6_SiblingsOneFewer ==
    \A n \in Nodes :
        IF parent[n] = None THEN get_siblings(n) = <<>>
        ELSE /\ get_siblings(n) = Others(get_children(parent[n]), n)
             /\ ~Contains(get_siblings(n), n)
             /\ Len(get_siblings(n)) = Len(get_children(parent[n])) - 1

\* C6 (amended): for N with a parent, get_siblings() is the other children of
\* the parent in order, N is not among them, and their number is the number
\* of the parent's children minus the number of times N occurs among them;
\* for N without a parent it is empty.
C6_SiblingsMinusOccurrences ==
    \A n \in Nodes :
        IF parent[n] = None THEN get_siblings(n) = <<>>
        ELSE /\ get_siblings(n) = Others(get_children(parent[n]), n)
             /\ ~Contains(get_siblings(n), n)
             /\ Len(get_siblings(n)) =
                   Len(get_children(parent[n])) - Count(get_children(parent[n]), n)

\* a node that is in its parent's list, next to a different node
C6_Witness ==
    \E n \in Nodes :
        /\ parent[n] # None
        /\ Contains(get_children(parent[n]), n)
        /\ Len(get_siblings(n)) >= 1

\* ---- C7 ---------------------------------------------------------------------------
\* C7: no node is its own ancestor, through parents or through children, and
\* get_depth, get_ancestors, get_height, get_size and get_leaves end normally
\* on every node.
C7_Acyclic ==
    \A n \in Nodes :
        /\ AcyclicChain(n)
        /\ n \notin Below(n)
        /\ get_depth(n, RecursionLimit).err = "none"
        /\ get_ancestors(n, RecursionLimit).err = "none"
        /\ get_height(n, RecursionLimit).err = "none"
        /\ get_size(n, RecursionLimit).err = "none"
        /\ get_leaves(n, RecursionLimit).err = "none"

\* ---- C8 ---------------------------------------------------------------------------
\* C8: for N whose parent chain ends, get_depth() is 0 without a parent and
\* the parent's depth plus one otherwise; get_ancestors() is the parent chain
\* from N's parent to the root, nearest first, without N; its length is
\* get_depth().
C8_DepthAndAncestors ==
    \A n \in Nodes : AcyclicChain(n) =>
        LET d == get_depth(n, RecursionLimit)
            a == get_ancestors(n, RecursionLimit)
        IN  /\ d.err = "none"
            /\ a.err = "none"
            /\ parent[n] = None => d.val = 0
            /\ parent[n] # None => d.val = get_depth(parent[n], RecursionLimit).val + 1
            /\ d.val = Cardinality({k \in 1..nNodes : ParentIter(n, k) # None})
            /\ Len(a.val) = d.val
            /\ \A i \in 1..Len(a.val) : a.val[i] = ParentIter(n, i)
            /\ a.val # <<>> => parent[a.val[Len(a.val)]] = None
            /\ ~Contains(a.val, n)

\* the chain of the example: D under B under A
C8_Witness ==
    \E a \in Nodes, b \in Nodes, d \in Nodes :
        /\ parent[a] = None /\ parent[b] = a /\ parent[d] = b
        /\ get_depth(d, RecursionLimit) = Ok(2)
        /\ get_ancestors(d, RecursionLimit) = Ok(<<b, a>>)

\* ---- C9 ---------------------------------------------------------------------------
\* C9: for N with no child cycle below it, get_leaves() is not empty, every
\* node in it has no children, it is <<N>> when N is a leaf and otherwise the
\* concatenation of the children's get_leaves(), and it is the childless
\* nodes of N's subtree in pre-order.
C9_Leaves ==
    \A n \in Nodes : AcyclicBelow(n) =>
        LET r == get_leaves(n, RecursionLimit)
            ch == get_children(n)
        IN  /\ r.err = "none"
            /\ Len(r.val) >= 1
            /\ \A i \in 1..Len(r.val) : is_leaf(r.val[i])
            /\ is_leaf(n) => r.val = <<n>>
            /\ ~is_leaf(n) =>
                 r.val = Flatten([i \in 1..Len(ch) |-> get_leaves(ch[i], RecursionLimit).val])
            /\ r.val = SelectSeq(<<n>> \o Preorder(n), is_leaf)

\* a node with two different leaves below it
C9_Witness ==
    \E n \in Nodes :
        /\ AcyclicBelow(n)
        /\ ~is_leaf(n)
        /\ \E x \in Nodes, y \in Nodes :
              x # y /\ get_leaves(n, RecursionLimit) = Ok(<<x, y>>)

\* ---- C10 --------------------------------------------------------------------------
\* C10: a node built without a children argument has no children right after
\* construction, and add_child or remove_child on one such node leaves the
\* list of every other such node unchanged.
C10_IndependentChildLists ==
    [][/\ (last'.op = "__init__" /\ children'[last'.self] = DefaultList)
            => heap'[children'[last'.self]] = <<>>
       /\ last'.op \in {"add_child", "remove_child"}
            => \A b \in Nodes \ {last'.self} :
                  (children[b] = DefaultList /\ children[last'.self] = DefaultList)
                     => heap'[children'[b]] = heap[children[b]]]_vars

====
